---- MODULE Spec2Model ----
(***************************************************************************)
(* Model of gateway/src/chains/ethereum/uniswap/uniswap.ts: the Uniswap    *)
(* connector's token list, its two price operations (priceSwapIn,          *)
(* priceSwapOut) and executeTrade.                                         *)
(*                                                                         *)
(* The connector itself holds no arithmetic: it calls @uniswap/sdk         *)
(* (Fetcher, Trade, Router, Token) and ethers (Contract).  Those libraries *)
(* are not part of the source tree, so the definitions standing for them   *)
(* follow the design specification, sections 4.3 - 4.5; the definitions of *)
(* the connector's own methods follow uniswap.ts line by line.             *)
(***************************************************************************)
EXTENDS Integers, Sequences, FiniteSets, TLC

\* ------------------------------------------------------------------ bounds
MaxTokens == 2
MaxReserve == 2
MaxAmount == 2
SlipDen == 3
MaxTime == 2
MaxSends == 3

\* two token addresses, ordered as the pair sorts them
Addresses == {1, 2}
\* 256 is outside uint8: the Token constructor rejects it
Decimals == {6, 18, 256}
ChainIds == {1, 42}
\* small reserves, plus the reserves of the specification's worked example
\* and reserves on which the fee-adjusted division is exact
Reserves == 0 .. MaxReserve
SpecialReserves == {<<1000000, 2000000>>, <<997, 2>>, <<1, 1997>>}
Amounts == (0 .. MaxAmount) \cup {1000}
Tolerances == {[num |-> n, den |-> SlipDen] : n \in 0 .. (SlipDen - 1)}
Ttls == {-1, 0, 1, 1800}

\* ------------------------------------------- arbitrary-precision helpers
\* JSBI integers are unbounded.  MulDivMod(a, b, c) is <<(a*b) \div c,
\* (a*b) % c>> computed by doubling, so that no intermediate value exceeds
\* the larger of c and the quotient.
AddMod(x, y, c) ==
  IF x >= c - y THEN <<1, x - (c - y)>> ELSE <<0, x + y>>

RECURSIVE MulDivMod(_, _, _)
MulDivMod(a, b, c) ==
  IF b = 0 THEN <<0, 0>>
  ELSE LET h == MulDivMod(a, b \div 2, c)
           d == AddMod(h[2], h[2], c)
           q2 == 2 * h[1] + d[1]
       IN IF b % 2 = 0 THEN <<q2, d[2]>>
          ELSE LET e == AddMod(d[2], a % c, c)
               IN <<q2 + (a \div c) + e[1], e[2]>>

MulDivFloor(a, b, c) == MulDivMod(a, b, c)[1]

MulDivCeil(a, b, c) ==
  LET qr == MulDivMod(a, b, c) IN IF qr[2] = 0 THEN qr[1] ELSE qr[1] + 1

\* ------------------------------------------------------------ Token (sdk)
NoToken == [chainId |-> 0, address |-> 0, decimals |-> 0]

\* new Token(chainId, address, decimals, symbol, name); symbol and name are
\* carried along unread and are left out
NewToken(chainId, address, decimals) ==
  [chainId |-> chainId, address |-> address, decimals |-> decimals]

\* Token.decimals is a uint8
ValidDecimals(decimals) == decimals >= 0 /\ decimals <= 255

\* ------------------------------------------------------------- Pair (sdk)
\* Fetcher.fetchPairData(tokenIn, tokenOut): the collaborator's reserves are
\* keyed by token, whatever the order the tokens were asked in
NewPair(tokenA, tokenB, reserveA, reserveB) ==
  IF tokenA.address <= tokenB.address
  THEN [token0 |-> tokenA, token1 |-> tokenB, reserve0 |-> reserveA, reserve1 |-> reserveB]
  ELSE [token0 |-> tokenB, token1 |-> tokenA, reserve0 |-> reserveB, reserve1 |-> reserveA]

NoPair == NewPair(NoToken, NoToken, 0, 0)

reserveOf(pair, token) ==
  IF token = pair.token0 THEN pair.reserve0 ELSE pair.reserve1

\* ------------------------------------------------- Trade Resolver (sdk)
FeeNumerator == 997
FeeDenominator == 1000

\* ExactIn: floor(in*997*reserveOut / (reserveIn*1000 + in*997))
getOutputAmount(reserveIn, reserveOut, inputAmount) ==
  LET amountInWithFee == inputAmount * FeeNumerator
  IN MulDivFloor(amountInWithFee, reserveOut, reserveIn * FeeDenominator + amountInWithFee)

\* ExactOut: floor(reserveIn*out*1000 / ((reserveOut - out)*997)) + 1
getInputAmount(reserveIn, reserveOut, outputAmount) ==
  MulDivFloor(reserveIn * FeeDenominator, outputAmount, (reserveOut - outputAmount) * FeeNumerator) + 1

NoTrade ==
  [tradeType |-> "none", inputToken |-> NoToken, outputToken |-> NoToken,
   inputAmount |-> 0, outputAmount |-> 0, pair |-> NoPair]

\* Trade.bestTradeExactIn([pair], amountIn, tokenOut, {maxHops: 1}): the
\* candidates, best first; empty when the pair has no liquidity
bestTradeExactIn(pair, tokenIn, amountIn, tokenOut) ==
  IF pair.reserve0 = 0 \/ pair.reserve1 = 0 THEN <<>>
  ELSE << [tradeType |-> "EXACT_INPUT", inputToken |-> tokenIn, outputToken |-> tokenOut,
           inputAmount |-> amountIn,
           outputAmount |-> getOutputAmount(reserveOf(pair, tokenIn), reserveOf(pair, tokenOut), amountIn),
           pair |-> pair] >>

\* Trade.bestTradeExactOut([pair], tokenIn, amountOut, {maxHops: 1}); a pair
\* whose output reserve does not exceed amountOut (InsufficientOutputReserve)
\* is no candidate
bestTradeExactOut(pair, tokenIn, tokenOut, amountOut) ==
  IF pair.reserve0 = 0 \/ pair.reserve1 = 0 THEN <<>>
  ELSE IF amountOut >= reserveOf(pair, tokenOut) THEN <<>>
  ELSE << [tradeType |-> "EXACT_OUTPUT", inputToken |-> tokenIn, outputToken |-> tokenOut,
           inputAmount |-> getInputAmount(reserveOf(pair, tokenIn), reserveOf(pair, tokenOut), amountOut),
           outputAmount |-> amountOut,
           pair |-> pair] >>

\* ------------------------------------------ Slippage Bound Calculator (sdk)
\* floor(outputAmount * (1 - s))
minimumAmountOut(trade, s) == MulDivFloor(trade.outputAmount, s.den - s.num, s.den)

\* ceil(inputAmount * (1 + s))
maximumAmountIn(trade, s) == MulDivCeil(trade.inputAmount, s.den + s.num, s.den)

\* --------------------------------------------------- BigNumber -> TokenAmount
\* BigNumber.toString(): the decimal digits, most significant first
RECURSIVE toString(_)
toString(n) == IF n < 10 THEN <<n>> ELSE Append(toString(n \div 10), n % 10)

\* JSBI.BigInt(string), as the TokenAmount constructor parses its raw amount
RECURSIVE parseBigint(_)
parseBigint(digits) ==
  IF digits = <<>> THEN 0
  ELSE 10 * parseBigint(SubSeq(digits, 1, Len(digits) - 1)) + digits[Len(digits)]

NewTokenAmount(token, digits) == parseBigint(digits)

\* =========================================================== the connector
VARIABLES chainId, ready, tokenList, slippage, lastInit, lastQuote,
          ttl, now, sendCount, lastExec

vars == <<chainId, ready, tokenList, slippage, lastInit, lastQuote,
          ttl, now, sendCount, lastExec>>

quoteVars == <<chainId, ready, tokenList, slippage, lastInit, lastQuote>>
execVars == <<ttl, now, sendCount, lastExec>>

\* ---------------------------------------------------------------- init()
\* the loop of init() over ethereum.storedTokenList; a Token that cannot be
\* constructed ends the loop with the tokens before it already stored
RECURSIVE storeTokens(_, _, _)
storeTokens(list, cid, tl) ==
  IF list = <<>> THEN [tokenList |-> tl, thrown |-> FALSE, error |-> "none"]
  ELSE LET token == Head(list)
       IN IF ~ValidDecimals(token.decimals)
          THEN [tokenList |-> tl, thrown |-> TRUE, error |-> "DECIMALS"]
          ELSE storeTokens(Tail(list), cid,
                 [tl EXCEPT ![token.address] = NewToken(cid, token.address, token.decimals)])

init(ethReady, storedTokenList, cid, tl, rdy) ==
  IF ~ethReady
  THEN [tokenList |-> tl, ready |-> rdy, thrown |-> TRUE, error |-> "Eth is not available"]
  ELSE LET r == storeTokens(storedTokenList, cid, tl)
       IN [tokenList |-> r.tokenList, ready |-> (IF r.thrown THEN rdy ELSE TRUE),
           thrown |-> r.thrown, error |-> r.error]

\* ------------------------------------------------------ quote results
Returned(kind, trade, expectedAmount) ==
  [thrown |-> FALSE, kind |-> kind, trade |-> trade, expectedAmount |-> expectedAmount]

Thrown(kind) ==
  [thrown |-> TRUE, kind |-> kind, trade |-> NoTrade, expectedAmount |-> 0]

NoFetch == [ok |-> FALSE, reserveIn |-> 0, reserveOut |-> 0]

\* what Fetcher.fetchPairData can answer: the reserves of the two tokens, or
\* a rejection (no such pair, RPC failure)
FetchOutcomes ==
  {NoFetch}
    \cup {[ok |-> TRUE, reserveIn |-> a, reserveOut |-> b] : a \in Reserves, b \in Reserves}
    \cup {[ok |-> TRUE, reserveIn |-> p[1], reserveOut |-> p[2]] : p \in SpecialReserves}

\* ------------------------------------------------- faulty variants
\* priceSwapIn asking the resolver for the trade in the opposite direction
priceSwapIn_swapped(tl, tokenInAddress, tokenOutAddress, tokenInAmount, fetched, slip) ==
  LET tokenIn == tl[tokenInAddress]
      tokenOut == tl[tokenOutAddress]
  IN IF tokenIn = NoToken THEN Returned("tokenInAddress not found in tokenList", NoTrade, 0)
     ELSE IF tokenOut = NoToken THEN Returned("tokenOutAddress not found in tokenList", NoTrade, 0)
     ELSE LET tokenInAmount_ == NewTokenAmount(tokenIn, toString(tokenInAmount))
          IN IF ~fetched.ok THEN Thrown("fetchPairData")
             ELSE LET pair == NewPair(tokenIn, tokenOut, fetched.reserveIn, fetched.reserveOut)
                      trades == bestTradeExactIn(pair, tokenOut, tokenInAmount_, tokenIn)
                  IN IF Len(trades) = 0 THEN Returned("no trade pair found", NoTrade, 0)
                     ELSE Returned("ExpectedTrade", trades[1], minimumAmountOut(trades[1], slip))

\* priceSwapIn bounding the quote with maximumAmountIn, as priceSwapOut does
priceSwapIn_maximumAmountIn(tl, tokenInAddress, tokenOutAddress, tokenInAmount, fetched, slip) ==
  LET tokenIn == tl[tokenInAddress]
      tokenOut == tl[tokenOutAddress]
  IN IF tokenIn = NoToken THEN Returned("tokenInAddress not found in tokenList", NoTrade, 0)
     ELSE IF tokenOut = NoToken THEN Returned("tokenOutAddress not found in tokenList", NoTrade, 0)
     ELSE LET tokenInAmount_ == NewTokenAmount(tokenIn, toString(tokenInAmount))
          IN IF ~fetched.ok THEN Thrown("fetchPairData")
             ELSE LET pair == NewPair(tokenIn, tokenOut, fetched.reserveIn, fetched.reserveOut)
                      trades == bestTradeExactIn(pair, tokenIn, tokenInAmount_, tokenOut)
                  IN IF Len(trades) = 0 THEN Returned("no trade pair found", NoTrade, 0)
                     ELSE Returned("ExpectedTrade", trades[1], maximumAmountIn(trades[1], slip))

\* priceSwapIn without the test for an empty candidate list
priceSwapIn_noEmptyTest(tl, tokenInAddress, tokenOutAddress, tokenInAmount, fetched, slip) ==
  LET tokenIn == tl[tokenInAddress]
      tokenOut == tl[tokenOutAddress]
  IN IF tokenIn = NoToken THEN Returned("tokenInAddress not found in tokenList", NoTrade, 0)
     ELSE IF tokenOut = NoToken THEN Returned("tokenOutAddress not found in tokenList", NoTrade, 0)
     ELSE LET tokenInAmount_ == NewTokenAmount(tokenIn, toString(tokenInAmount))
          IN IF ~fetched.ok THEN Thrown("fetchPairData")
             ELSE LET pair == NewPair(tokenIn, tokenOut, fetched.reserveIn, fetched.reserveOut)
                      trades == bestTradeExactIn(pair, tokenIn, tokenInAmount_, tokenOut)
                  IN IF Len(trades) = 0 THEN Returned("ExpectedTrade", NoTrade, minimumAmountOut(NoTrade, slip))
                     ELSE Returned("ExpectedTrade", trades[1], minimumAmountOut(trades[1], slip))

\* priceSwapOut without the lookup test on tokenOut
priceSwapOut_noTokenOutTest(tl, tokenInAddress, tokenOutAddress, tokenOutAmount, fetched, slip) ==
  LET tokenIn == tl[tokenInAddress]
      tokenOut == tl[tokenOutAddress]
  IN IF tokenIn = NoToken THEN Returned("tokenInAddress not found in tokenList", NoTrade, 0)
     ELSE LET tokenOutAmount_ == NewTokenAmount(tokenOut, toString(tokenOutAmount))
          IN IF ~fetched.ok THEN Thrown("fetchPairData")
             ELSE LET pair == NewPair(tokenIn, tokenOut, fetched.reserveIn, fetched.reserveOut)
                      trades == bestTradeExactOut(pair, tokenIn, tokenOut, tokenOutAmount_)
                  IN IF Len(trades) = 0 THEN Returned("no trade pair found", NoTrade, 0)
                     ELSE Returned("ExpectedTrade", trades[1], maximumAmountIn(trades[1], slip))

\* priceSwapOut asking the resolver for the trade in the opposite direction
priceSwapOut_swapped(tl, tokenInAddress, tokenOutAddress, tokenOutAmount, fetched, slip) ==
  LET tokenIn == tl[tokenInAddress]
      tokenOut == tl[tokenOutAddress]
  IN IF tokenIn = NoToken THEN Returned("tokenInAddress not found in tokenList", NoTrade, 0)
     ELSE IF tokenOut = NoToken THEN Returned("tokenOutAddress not found in tokenList", NoTrade, 0)
     ELSE LET tokenOutAmount_ == NewTokenAmount(tokenOut, toString(tokenOutAmount))
          IN IF ~fetched.ok THEN Thrown("fetchPairData")
             ELSE LET pair == NewPair(tokenIn, tokenOut, fetched.reserveIn, fetched.reserveOut)
                      trades == bestTradeExactOut(pair, tokenOut, tokenIn, tokenOutAmount_)
                  IN IF Len(trades) = 0 THEN Returned("no trade pair found", NoTrade, 0)
                     ELSE Returned("ExpectedTrade", trades[1], maximumAmountIn(trades[1], slip))

\* ------------------------------------------------------- priceSwapIn()
priceSwapIn(tl, tokenInAddress, tokenOutAddress, tokenInAmount, fetched, slip) ==
  LET tokenIn == tl[tokenInAddress]
      tokenOut == tl[tokenOutAddress]
  IN IF tokenIn = NoToken THEN Returned("tokenInAddress not found in tokenList", NoTrade, 0)
     ELSE IF tokenOut = NoToken THEN Returned("tokenOutAddress not found in tokenList", NoTrade, 0)
     ELSE LET tokenInAmount_ == NewTokenAmount(tokenIn, toString(tokenInAmount))
          IN IF ~fetched.ok THEN Thrown("fetchPairData")
             ELSE LET pair == NewPair(tokenIn, tokenOut, fetched.reserveIn, fetched.reserveOut)
                      trades == bestTradeExactIn(pair, tokenIn, tokenInAmount_, tokenOut)
                  IN IF Len(trades) = 0 THEN Returned("no trade pair found", NoTrade, 0)
                     ELSE Returned("ExpectedTrade", trades[1], minimumAmountOut(trades[1], slip))

\* ------------------------------------------------------ priceSwapOut()
priceSwapOut(tl, tokenInAddress, tokenOutAddress, tokenOutAmount, fetched, slip) ==
  LET tokenIn == tl[tokenInAddress]
      tokenOut == tl[tokenOutAddress]
  IN IF tokenIn = NoToken THEN Returned("tokenInAddress not found in tokenList", NoTrade, 0)
     ELSE IF tokenOut = NoToken THEN Returned("tokenOutAddress not found in tokenList", NoTrade, 0)
     ELSE LET tokenOutAmount_ == NewTokenAmount(tokenOut, toString(tokenOutAmount))
          IN IF ~fetched.ok THEN Thrown("fetchPairData")
             ELSE LET pair == NewPair(tokenIn, tokenOut, fetched.reserveIn, fetched.reserveOut)
                      trades == bestTradeExactOut(pair, tokenIn, tokenOut, tokenOutAmount_)
                  IN IF Len(trades) = 0 THEN Returned("no trade pair found", NoTrade, 0)
                     ELSE Returned("ExpectedTrade", trades[1], maximumAmountIn(trades[1], slip))

\* ---------------------------------------------------------------- state
NoQuote ==
  [op |-> "none", tokenInAddress |-> 0, tokenOutAddress |-> 0, amount |-> 0,
   fetched |-> NoFetch, roundTripOf |-> -1, result |-> Returned("none", NoTrade, 0)]

NoInit == [called |-> FALSE, thrown |-> FALSE, error |-> "none", storedTokenList |-> <<>>,
           before |-> [a \in Addresses |-> NoToken]]

StoredTokens == [address : Addresses, decimals : Decimals]
StoredTokenLists ==
  UNION {[1 .. n -> StoredTokens] : n \in 0 .. MaxTokens}

\* a caller runs init() against the Ethereum service's stored token list
Init_(ethReady, storedTokenList) ==
  LET r == init(ethReady, storedTokenList, chainId, tokenList, ready)
  IN /\ tokenList' = r.tokenList
     /\ ready' = r.ready
     /\ lastInit' = [called |-> TRUE, thrown |-> r.thrown, error |-> r.error,
                     storedTokenList |-> storedTokenList, before |-> tokenList]
     /\ UNCHANGED <<chainId, slippage, lastQuote, execVars>>

DoInit ==
  \E ethReady \in BOOLEAN, storedTokenList \in StoredTokenLists :
    Init_(ethReady, storedTokenList)

\* fetchPairData has no pair to read for a token against itself
CanFetch(tokenInAddress, tokenOutAddress, fetched) ==
  tokenInAddress = tokenOutAddress => ~fetched.ok

PriceSwapIn ==
  \E tokenInAddress \in Addresses, tokenOutAddress \in Addresses,
     tokenInAmount \in Amounts, fetched \in FetchOutcomes :
    /\ CanFetch(tokenInAddress, tokenOutAddress, fetched)
    /\ lastQuote' = [op |-> "priceSwapIn", tokenInAddress |-> tokenInAddress,
                     tokenOutAddress |-> tokenOutAddress, amount |-> tokenInAmount,
                     fetched |-> fetched, roundTripOf |-> -1,
                     result |-> priceSwapIn(tokenList, tokenInAddress, tokenOutAddress,
                                            tokenInAmount, fetched, slippage)]
    /\ UNCHANGED <<chainId, ready, tokenList, slippage, lastInit, execVars>>

PriceSwapOut ==
  \E tokenInAddress \in Addresses, tokenOutAddress \in Addresses,
     tokenOutAmount \in Amounts, fetched \in FetchOutcomes :
    /\ CanFetch(tokenInAddress, tokenOutAddress, fetched)
    /\ lastQuote' = [op |-> "priceSwapOut", tokenInAddress |-> tokenInAddress,
                     tokenOutAddress |-> tokenOutAddress, amount |-> tokenOutAmount,
                     fetched |-> fetched, roundTripOf |-> -1,
                     result |-> priceSwapOut(tokenList, tokenInAddress, tokenOutAddress,
                                             tokenOutAmount, fetched, slippage)]
    /\ UNCHANGED <<chainId, ready, tokenList, slippage, lastInit, execVars>>

\* the caller feeds the output of the ExactIn quote it just received back
\* into priceSwapOut, and the pair still has the reserves of that quote
PriceSwapOutOfQuote ==
  /\ lastQuote.op = "priceSwapIn"
  /\ lastQuote.result.kind = "ExpectedTrade"
  /\ lastQuote' = [op |-> "priceSwapOut", tokenInAddress |-> lastQuote.tokenInAddress,
                   tokenOutAddress |-> lastQuote.tokenOutAddress,
                   amount |-> lastQuote.result.trade.outputAmount,
                   fetched |-> lastQuote.fetched,
                   roundTripOf |-> lastQuote.result.trade.inputAmount,
                   result |-> priceSwapOut(tokenList, lastQuote.tokenInAddress,
                                           lastQuote.tokenOutAddress,
                                           lastQuote.result.trade.outputAmount,
                                           lastQuote.fetched, slippage)]
  /\ UNCHANGED <<chainId, ready, tokenList, slippage, lastInit, execVars>>

\* ------------------------------------- Transaction Parameter Builder (sdk)
NoParameters == [ok |-> FALSE, methodName |-> "none", amount |-> 0, bound |-> 0, deadline |-> 0, value |-> 0]

\* Router.swapCallParameters(trade, {ttl, recipient, allowedSlippage}) at
\* clock time currentTime; both tokens of a trade quoted here are ERC-20
\* tokens, so no value is attached
swapCallParameters(trade, ttlSeconds, slip, currentTime) ==
  IF ttlSeconds <= 0 THEN NoParameters
  ELSE IF trade.tradeType = "EXACT_INPUT"
  THEN [ok |-> TRUE, methodName |-> "swapExactTokensForTokens", amount |-> trade.inputAmount,
        bound |-> minimumAmountOut(trade, slip), deadline |-> currentTime + ttlSeconds, value |-> 0]
  ELSE [ok |-> TRUE, methodName |-> "swapTokensForExactTokens", amount |-> trade.outputAmount,
        bound |-> maximumAmountIn(trade, slip), deadline |-> currentTime + ttlSeconds, value |-> 0]

\* ------------------------------------------------------- executeTrade()
Gwei == 1000000000

NoEnvelope == [parameters |-> NoParameters, gasPrice |-> 0]

\* what the wallet / router contract call can answer: a pending transaction,
\* or a failure
SendOutcomes ==
  {[ok |-> TRUE, value |-> v] : v \in {"tx 0xaa", "tx 0xbb"}}
    \cup {[ok |-> FALSE, value |-> v] : v \in {"broadcast failed", "insufficient funds"}}

\* executeTrade going on to the contract call although no call parameters
\* were built
executeTrade_ignoresFailure(trade, gasPrice, ttlSeconds, slip, currentTime, outcome) ==
  LET result == swapCallParameters(trade, ttlSeconds, slip, currentTime)
      envelope == [parameters |-> result, gasPrice |-> gasPrice * Gwei]
  IN IF outcome.ok
     THEN [thrown |-> FALSE, value |-> outcome.value, sends |-> <<envelope>>]
     ELSE [thrown |-> TRUE, value |-> outcome.value, sends |-> <<envelope>>]

\* executeTrade calling the contract a second time after a failure
executeTrade_retries(trade, gasPrice, ttlSeconds, slip, currentTime, outcome) ==
  LET result == swapCallParameters(trade, ttlSeconds, slip, currentTime)
  IN IF ~result.ok THEN [thrown |-> TRUE, value |-> "TTL", sends |-> <<>>]
     ELSE LET envelope == [parameters |-> result, gasPrice |-> gasPrice * Gwei]
          IN IF outcome.ok
             THEN [thrown |-> FALSE, value |-> outcome.value, sends |-> <<envelope>>]
             ELSE [thrown |-> TRUE, value |-> outcome.value, sends |-> <<envelope, envelope>>]

\* sends: the envelopes handed to the contract call, in order
executeTrade(trade, gasPrice, ttlSeconds, slip, currentTime, outcome) ==
  LET result == swapCallParameters(trade, ttlSeconds, slip, currentTime)
  IN IF ~result.ok THEN [thrown |-> TRUE, value |-> "TTL", sends |-> <<>>]
     ELSE LET envelope == [parameters |-> result, gasPrice |-> gasPrice * Gwei]
          IN IF outcome.ok
             THEN [thrown |-> FALSE, value |-> outcome.value, sends |-> <<envelope>>]
             ELSE [thrown |-> TRUE, value |-> outcome.value, sends |-> <<envelope>>]

NoExec ==
  [called |-> FALSE, trade |-> NoTrade, currentTime |-> 0, outcome |-> [ok |-> FALSE, value |-> "none"],
   thrown |-> FALSE, value |-> "none", sends |-> <<>>]

GasPrices == {1, 2}

\* the trades a caller can hold: what the two price operations return
ExecTrades ==
  {bestTradeExactIn(NewPair(NewToken(1, 1, 18), NewToken(1, 2, 6), a, b),
                    NewToken(1, 1, 18), x, NewToken(1, 2, 6))[1] :
     a \in 1 .. MaxReserve, b \in 1 .. MaxReserve, x \in 1 .. MaxAmount}
  \cup
  {bestTradeExactOut(NewPair(NewToken(1, 1, 18), NewToken(1, 2, 6), a, b),
                     NewToken(1, 1, 18), NewToken(1, 2, 6), x)[1] :
     a \in 1 .. MaxReserve, b \in (MaxAmount + 1) .. (MaxAmount + 1), x \in 1 .. MaxAmount}

ExecuteTrade ==
  \E trade \in ExecTrades, gasPrice \in GasPrices, outcome \in SendOutcomes :
    LET r == executeTrade(trade, gasPrice, ttl, slippage, now, outcome)
    IN /\ sendCount + Len(r.sends) <= MaxSends
       /\ sendCount' = sendCount + Len(r.sends)
       /\ lastExec' = [called |-> TRUE, trade |-> trade, currentTime |-> now, outcome |-> outcome,
                       thrown |-> r.thrown, value |-> r.value, sends |-> r.sends]
       /\ UNCHANGED <<ttl, now, quoteVars>>

\* the clock read by swapCallParameters advances
Tick ==
  /\ now < MaxTime
  /\ now' = now + 1
  /\ UNCHANGED <<ttl, sendCount, lastExec, quoteVars>>

\* ------------------------------------------------------- specifications
\* the state after getInstance(): nothing registered, nothing quoted or sent
Init ==
  /\ chainId \in ChainIds
  /\ ready = FALSE
  /\ tokenList = [a \in Addresses |-> NoToken]
  /\ slippage \in Tolerances
  /\ ttl \in Ttls
  /\ lastInit = NoInit
  /\ lastQuote = NoQuote
  /\ now = 0
  /\ sendCount = 0
  /\ lastExec = NoExec

Next ==
  \/ DoInit
  \/ PriceSwapIn
  \/ PriceSwapOut
  \/ PriceSwapOutOfQuote
  \/ ExecuteTrade
  \/ Tick

Spec == Init /\ [][Next]_vars

\* the token list alone: init() and nothing else, under one configuration
\* of slippage and ttl (init() reads neither)
InitRegistry ==
  /\ Init
  /\ slippage = [num |-> 0, den |-> SlipDen]
  /\ ttl = 1800

NextRegistry == DoInit

SpecRegistry == InitRegistry /\ [][NextRegistry]_vars

\* the price operations, from the states one init() call leaves behind
InitQuote ==
  /\ chainId = 1
  /\ slippage \in Tolerances
  /\ ttl = 1800
  /\ \E ethReady \in BOOLEAN, storedTokenList \in StoredTokenLists :
       LET r == init(ethReady, storedTokenList, chainId, [a \in Addresses |-> NoToken], FALSE)
       IN /\ tokenList = r.tokenList
          /\ ready = r.ready
  /\ lastInit = NoInit
  /\ lastQuote = NoQuote
  /\ now = 0
  /\ sendCount = 0
  /\ lastExec = NoExec

NextQuote ==
  \/ PriceSwapIn
  \/ PriceSwapOut
  \/ PriceSwapOutOfQuote

SpecQuote == InitQuote /\ [][NextQuote]_vars

\* executeTrade and the clock, on mainnet
InitExec ==
  /\ Init
  /\ chainId = 1

NextExec ==
  \/ ExecuteTrade
  \/ Tick

SpecExec == InitExec /\ [][NextExec]_vars

\* ================================================================ claims
\* a*b >= c*d, without forming the products
Big == 1024 * 1024 * 1024

ProductGE(a, b, c, d) ==
  LET p == MulDivMod(a, b, Big)
      q == MulDivMod(c, d, Big)
  IN p[1] > q[1] \/ (p[1] = q[1] /\ p[2] >= q[2])

\* q = floor(a*b / c)
IsFloorDiv(q, a, b, c) == ProductGE(a, b, q, c) /\ ~ProductGE(a, b, q + 1, c)

Registered(address) == tokenList[address] # NoToken

Quoted == lastQuote.op # "none"
BothRegistered == Registered(lastQuote.tokenInAddress) /\ Registered(lastQuote.tokenOutAddress)
ReserveIn == lastQuote.fetched.reserveIn
ReserveOut == lastQuote.fetched.reserveOut
PositiveReserves == lastQuote.fetched.ok /\ ReserveIn > 0 /\ ReserveOut > 0
GotTrade == ~lastQuote.result.thrown /\ lastQuote.result.kind = "ExpectedTrade"
QuotedTrade == lastQuote.result.trade

\* C1: a price operation (priceSwapIn or priceSwapOut) whose input-token or
\* output-token address is not in the token list returns a not-found value
\* naming the missing side, for every amount and token list; it does not
\* throw and carries no trade.
C1_TokenNotFoundReturned ==
  (Quoted /\ ~BothRegistered) =>
    /\ ~lastQuote.result.thrown
    /\ lastQuote.result.trade = NoTrade
    /\ lastQuote.result.kind =
         IF ~Registered(lastQuote.tokenInAddress)
         THEN "tokenInAddress not found in tokenList"
         ELSE "tokenOutAddress not found in tokenList"

C1_Witness ==
  /\ lastQuote.op = "priceSwapOut"
  /\ Registered(lastQuote.tokenInAddress)
  /\ ~Registered(lastQuote.tokenOutAddress)
  /\ lastQuote.fetched.ok
  /\ lastQuote.amount > 0
  /\ lastQuote.result.kind = "tokenOutAddress not found in tokenList"

\* C2: with both tokens registered and a fetched pair that has a zero
\* reserve on either side, the price operation returns an
\* InsufficientLiquidity value and does not throw.
C2_ZeroReserveIsInsufficientLiquidity ==
  (Quoted /\ BothRegistered /\ lastQuote.fetched.ok /\ (ReserveIn = 0 \/ ReserveOut = 0)) =>
    /\ ~lastQuote.result.thrown
    /\ lastQuote.result.kind = "InsufficientLiquidity"

\* C3: for positive reserves and a positive input amount, priceSwapIn
\* returns a trade whose outputAmount is
\* floor(in*997*reserveOut / (reserveIn*1000 + in*997)), which is at least 0
\* and below reserveOut; reserves 1,000,000 / 2,000,000 and input 1,000 give
\* 1,992.
C3_ExactInOutput ==
  (lastQuote.op = "priceSwapIn" /\ BothRegistered /\ PositiveReserves /\ lastQuote.amount > 0) =>
    /\ GotTrade
    /\ QuotedTrade.inputAmount = lastQuote.amount
    /\ IsFloorDiv(QuotedTrade.outputAmount, lastQuote.amount * 997, ReserveOut,
                  ReserveIn * 1000 + lastQuote.amount * 997)
    /\ (lastQuote.amount <= 2 /\ ReserveOut <= 2000 =>
          QuotedTrade.outputAmount =
            (lastQuote.amount * 997 * ReserveOut) \div (ReserveIn * 1000 + lastQuote.amount * 997))
    /\ QuotedTrade.outputAmount >= 0
    /\ QuotedTrade.outputAmount < ReserveOut
    /\ (ReserveIn = 1000000 /\ ReserveOut = 2000000 /\ lastQuote.amount = 1000 =>
          QuotedTrade.outputAmount = 1992)

C3_Witness ==
  /\ lastQuote.op = "priceSwapIn"
  /\ GotTrade
  /\ ReserveIn = 1000000 /\ ReserveOut = 2000000 /\ lastQuote.amount = 1000
  /\ QuotedTrade.outputAmount = 1992

RoundTrip ==
  /\ lastQuote.op = "priceSwapOut"
  /\ lastQuote.roundTripOf > 0
  /\ PositiveReserves

\* the ExactIn division in*997*reserveOut / (reserveIn*1000 + in*997) of the
\* quote whose output was fed back left no remainder
ExactInWasExact ==
  MulDivMod(lastQuote.roundTripOf * 997, ReserveOut,
            ReserveIn * 1000 + lastQuote.roundTripOf * 997)[2] = 0

\* C4 as stated: feeding the output of an ExactIn quote to priceSwapOut on
\* the same reserves returns an inputAmount that is never greater than the
\* original inputAmount.
C4_RoundTripNeverGreater ==
  RoundTrip => (GotTrade /\ QuotedTrade.inputAmount <= lastQuote.roundTripOf)

\* C4 amended: feeding the output of an ExactIn quote to priceSwapOut on the
\* same reserves returns an inputAmount of at most the original inputAmount
\* plus one; it is greater than the original, by exactly one, exactly when
\* the ExactIn division left no remainder.
C4_RoundTripAtMostOneMore ==
  RoundTrip =>
    /\ GotTrade
    /\ QuotedTrade.outputAmount = lastQuote.amount
    /\ QuotedTrade.inputAmount <= lastQuote.roundTripOf + 1
    /\ (QuotedTrade.inputAmount = lastQuote.roundTripOf + 1) <=> ExactInWasExact

C4_Witness ==
  /\ RoundTrip
  /\ GotTrade
  /\ ReserveIn = 997 /\ ReserveOut = 2
  /\ lastQuote.roundTripOf = 1000
  /\ QuotedTrade.inputAmount = 1001

\* C5: every trade a price operation returns on a pair with positive
\* reserves keeps the constant product from decreasing:
\* (reserveIn + inputAmount) * (reserveOut - outputAmount) >= reserveIn * reserveOut.
C5_ConstantProduct ==
  (Quoted /\ GotTrade /\ PositiveReserves) =>
    /\ QuotedTrade.outputAmount < ReserveOut
    /\ ProductGE(ReserveIn + QuotedTrade.inputAmount, ReserveOut - QuotedTrade.outputAmount,
                 ReserveIn, ReserveOut)

C5_Witness ==
  /\ lastQuote.op = "priceSwapOut"
  /\ lastQuote.roundTripOf = -1
  /\ GotTrade
  /\ PositiveReserves
  /\ QuotedTrade.outputAmount > 0
  /\ QuotedTrade.inputAmount > 1

\* C6: the bound an ExactIn quote returns is minimumAmountOut of its trade
\* under the configured tolerance; it equals the trade's outputAmount when
\* the tolerance is 0, and minimumAmountOut is non-increasing in the
\* tolerance: for 0 <= s1 <= s2 < 1,
\* minimumAmountOut(trade, s2) <= minimumAmountOut(trade, s1) <= outputAmount.
C6_MinimumAmountOut ==
  (lastQuote.op = "priceSwapIn" /\ GotTrade) =>
    /\ lastQuote.result.expectedAmount <= QuotedTrade.outputAmount
    /\ (slippage.num = 0 => lastQuote.result.expectedAmount = QuotedTrade.outputAmount)
    /\ \A s1 \in Tolerances, s2 \in Tolerances :
         s1.num <= s2.num =>
           /\ minimumAmountOut(QuotedTrade, s2) <= minimumAmountOut(QuotedTrade, s1)
           /\ minimumAmountOut(QuotedTrade, s1) <= QuotedTrade.outputAmount
           /\ (s1 = slippage /\ s2.num > s1.num =>
                 minimumAmountOut(QuotedTrade, s2) <= lastQuote.result.expectedAmount)

C6_Witness ==
  /\ lastQuote.op = "priceSwapIn"
  /\ GotTrade
  /\ slippage.num > 0
  /\ QuotedTrade.outputAmount > 1000
  /\ lastQuote.result.expectedAmount < QuotedTrade.outputAmount
  /\ lastQuote.result.expectedAmount > 0

\* the resolver has no candidate for the quoted pair: a reserve is zero, or
\* the output asked of priceSwapOut is not below the output reserve
NoCandidate ==
  \/ ReserveIn = 0
  \/ ReserveOut = 0
  \/ (lastQuote.op = "priceSwapOut" /\ lastQuote.amount >= ReserveOut)

\* C10: with both tokens registered and the pair fetched, a price operation
\* returns the no-trade-pair value, with no trade and no slippage bound,
\* when the resolver has no candidate; it returns an ExpectedTrade only when
\* there is a candidate, and then with that candidate as its trade.
C10_NoRouteIsAValue ==
  (Quoted /\ BothRegistered /\ lastQuote.fetched.ok) =>
    /\ ~lastQuote.result.thrown
    /\ NoCandidate =>
         lastQuote.result = Returned("no trade pair found", NoTrade, 0)
    /\ ~NoCandidate =>
         /\ lastQuote.result.kind = "ExpectedTrade"
         /\ QuotedTrade # NoTrade
         /\ QuotedTrade.tradeType =
              (IF lastQuote.op = "priceSwapIn" THEN "EXACT_INPUT" ELSE "EXACT_OUTPUT")
         /\ QuotedTrade.inputToken = tokenList[lastQuote.tokenInAddress]
         /\ QuotedTrade.outputToken = tokenList[lastQuote.tokenOutAddress]

C10_Witness ==
  /\ lastQuote.op = "priceSwapIn"
  /\ BothRegistered
  /\ lastQuote.fetched.ok
  /\ ReserveIn = 0
  /\ ReserveOut > 0
  /\ lastQuote.amount > 0
  /\ lastQuote.result.kind = "no trade pair found"

\* the stored token list of the last init() call registers an address twice
\* with different decimals, or with decimals other than those the address
\* was registered with before the call
ValidPrefix(list, j) == \A k \in 1 .. j : ValidDecimals(list[k].decimals)

ConflictAt(list, j) ==
  /\ ValidPrefix(list, j)
  /\ \/ /\ lastInit.before[list[j].address] # NoToken
        /\ lastInit.before[list[j].address].decimals # list[j].decimals
     \/ \E i \in 1 .. (j - 1) :
          /\ list[i].address = list[j].address
          /\ list[i].decimals # list[j].decimals

InitRan == lastInit.called /\ lastInit.error # "Eth is not available"

\* C9: an init() whose token list registers an address with decimals
\* different from an earlier registration of that address fails with
\* InconsistentTokenMetadata, and no address registered before the call
\* has its entry replaced.
C9_ConflictingRegistrationRejected ==
  (InitRan /\ \E j \in DOMAIN lastInit.storedTokenList : ConflictAt(lastInit.storedTokenList, j)) =>
    /\ lastInit.thrown
    /\ lastInit.error = "InconsistentTokenMetadata"
    /\ \A a \in Addresses : lastInit.before[a] # NoToken => tokenList[a] = lastInit.before[a]

Sent == lastExec.sends

\* C7: executeTrade with a TTL of ttl seconds at clock time T hands the
\* contract call a deadline of T + ttl (T + 1800 for ttl = 1800); with
\* ttl <= 0 it fails and hands nothing to the contract call, so every
\* deadline submitted lies strictly after T.
C7_Deadline ==
  lastExec.called =>
    /\ ttl > 0 =>
         /\ Len(Sent) = 1
         /\ Sent[1].parameters.ok
         /\ Sent[1].parameters.deadline = lastExec.currentTime + ttl
    /\ ttl = 1800 /\ Len(Sent) > 0 => Sent[1].parameters.deadline = lastExec.currentTime + 1800
    /\ ttl <= 0 => (lastExec.thrown /\ Sent = <<>>)
    /\ \A k \in DOMAIN Sent : Sent[k].parameters.deadline > lastExec.currentTime

C7_Witness ==
  /\ lastExec.called
  /\ ttl = 1800
  /\ lastExec.currentTime > 0
  /\ Len(Sent) = 1
  /\ Sent[1].parameters.deadline = lastExec.currentTime + 1800

\* C8: one executeTrade call hands at most one envelope to the contract
\* call; when it does, a failure of that call is what executeTrade throws
\* and a pending transaction is what executeTrade returns, unchanged.
C8_NoRetry ==
  lastExec.called =>
    /\ Len(Sent) <= 1
    /\ Len(Sent) = 1 =>
         /\ lastExec.thrown = ~lastExec.outcome.ok
         /\ lastExec.value = lastExec.outcome.value

C8_Witness ==
  /\ lastExec.called
  /\ Len(Sent) = 1
  /\ ~lastExec.outcome.ok
  /\ lastExec.thrown
  /\ lastExec.value = "insufficient funds"
  /\ sendCount > 1

====
